---------------------------- MODULE Spec2Model ----------------------------
(***************************************************************************)
(* The Maker contract (contracts/tokenomics/maker): fee collection, the    *)
(* three-tier route resolver, the batch swap planner, the bridge table and *)
(* the self-addressed continuation.                                        *)
(*                                                                         *)
(* Storage is the three items of crate::state the handlers touch: CONFIG   *)
(* (cfg), BRIDGES (bridges) and LAST_COLLECT_TS (last_collect_ts).  The    *)
(* environment is the block time (now) and the factory's pairs (pools);    *)
(* balances are the answers of the balance queries of one invocation.      *)
(* Every handler is an operator that returns the handler's Result together *)
(* with the storage as the handler left it; execute commits that storage   *)
(* on Ok and discards it on Err, as the chain does with a failed message.  *)
(* last is the record of the invocation whose response is being handled,   *)
(* chain the records of the invocations that led to it: the messages the   *)
(* contract addressed to itself are delivered one after the other.         *)
(***************************************************************************)
EXTENDS Integers, Sequences, FiniteSets, TLC

VARIABLES cfg, bridges, last_collect_ts, now, pools, last, chain

vars == <<cfg, bridges, last_collect_ts, now, pools, last, chain>>

-----------------------------------------------------------------------------
(* Tokens, addresses, options                                              *)

\* AssetInfo values, identified by their to_string() form (the storage key).
Tokens == {"roids", "A", "B", "C"}

\* Option<AssetInfo>::None
None == "none"

\* Option<u64> / Option<Uint128>
NoneInt == [some |-> FALSE, val |-> 0]

Some(v) == [some |-> TRUE, val |-> v]

\* Message senders: the contract itself, the owner, anybody else.
ContractAddr == "maker"

OwnerAddr == "owner"

Senders == {ContractAddr, OwnerAddr, "user"}

\* DEFAULT_MAX_SPREAD, in percent.
DEFAULT_MAX_SPREAD == 5

\* astroport::pair::MAX_ALLOWED_SLIPPAGE ("0.5"), in percent.
MAX_ALLOWED_SLIPPAGE == 50

\* COOLDOWN_LIMITS = 30..=600
COOLDOWN_MIN == 30

COOLDOWN_MAX == 600

\* crate::utils depth constants.
BRIDGES_INITIAL_DEPTH == 0

BRIDGES_MAX_DEPTH == 2

BRIDGES_EXECUTION_MAX_DEPTH == 3

-----------------------------------------------------------------------------
(* Results and errors                                                      *)

NoErr == [type |-> "", token |-> None, token2 |-> None, num |-> 0]

Err(type, token, token2, num) ==
    [type |-> type, token |-> token, token2 |-> token2, num |-> num]

Unauthorized == Err("Unauthorized", None, None, 0)

DuplicatedAsset == Err("DuplicatedAsset", None, None, 0)

IncorrectMaxSpread == Err("IncorrectMaxSpread", None, None, 0)

IncorrectCooldown == Err("IncorrectCooldown", None, None, 0)

Cooldown(next_collect_ts) == Err("Cooldown", None, None, next_collect_ts)

CannotSwap(token) == Err("CannotSwap", token, None, 0)

MaxBridgeDepth(depth) == Err("MaxBridgeDepth", None, None, depth)

InvalidBridge(asset, bridge) == Err("InvalidBridge", asset, bridge, 0)

InvalidBridgeNoPool(from, to) == Err("InvalidBridgeNoPool", from, to, 0)

InvalidBridgeDestination(token) == Err("InvalidBridgeDestination", token, None, 0)

EmptySwapMessages == Err("Std:Empty swap messages", None, None, 0)

\* SubMsg values.
SwapMsg(from, to, amount) ==
    [kind |-> "swap", from |-> from, to |-> to, amount |-> amount,
     assets |-> <<>>, depth |-> 0]

SwapBridgeAssetsMsg(assets, depth) ==
    [kind |-> "swap_bridge_assets", from |-> None, to |-> ContractAddr,
     amount |-> 0, assets |-> assets, depth |-> depth]

DistributeAstroMsg ==
    [kind |-> "distribute_astro", from |-> None, to |-> ContractAddr,
     amount |-> 0, assets |-> <<>>, depth |-> 0]

\* The storage a handler reads and writes.
Store(c, b, ts) == [cfg |-> c, bridges |-> b, last_collect_ts |-> ts]

-----------------------------------------------------------------------------
(* crate::utils, astroport::asset                                          *)

\* get_pool: the factory knows a pair of the two (distinct) tokens.
HasPool(p, x, y) == x # y /\ {x, y} \in p

\* validate_cooldown: a configured cooldown lies in COOLDOWN_LIMITS.
validate_cooldown(cd) ==
    ~cd.some \/ (COOLDOWN_MIN <= cd.val /\ cd.val <= COOLDOWN_MAX)

\* validate_bridge: the pool from_token/bridge_token exists and, from
\* bridge_token, the target is reached: it is the target or has a pool with
\* it, or, below BRIDGES_MAX_DEPTH, its own bridge validates one level down.
RECURSIVE validate_bridge(_, _, _, _, _, _)
validate_bridge(b, p, from_token, bridge_token, astro_token, depth) ==
    IF ~HasPool(p, from_token, bridge_token)
    THEN InvalidBridgeNoPool(from_token, bridge_token)
    ELSE IF bridge_token = astro_token \/ HasPool(p, bridge_token, astro_token)
    THEN NoErr
    ELSE IF depth >= BRIDGES_MAX_DEPTH
    THEN MaxBridgeDepth(depth)
    ELSE IF b[bridge_token] = None
    THEN InvalidBridgeDestination(from_token)
    ELSE validate_bridge(b, p, bridge_token, b[bridge_token], astro_token, depth + 1)

\* try_build_swap_msg: a swap message when the pool from/to exists.
try_build_swap_msg(p, from, to) == HasPool(p, from, to)

\* build_distribute_msg: the follow-up of a hop: another SwapBridgeAssets
\* over the bridge assets, or DistributeAstro when there are none.
build_distribute_msg(bridge_assets, depth) ==
    IF bridge_assets # <<>>
    THEN SwapBridgeAssetsMsg(bridge_assets, depth)
    ELSE DistributeAstroMsg

-----------------------------------------------------------------------------
(* The route resolver and the batch swap planner                           *)

\* SwapTarget, or the error swap returns.
SwapRoids(m) == [err |-> NoErr, target |-> "Roids", asset |-> None, msg |-> m]

SwapBridge(asset, m) == [err |-> NoErr, target |-> "Bridge", asset |-> asset, msg |-> m]

SwapErr(e) == [err |-> e, target |-> "", asset |-> None, msg |-> SwapMsg(None, None, 0)]

\* swap that tries the direct pair before the default bridge.
swap_direct_first(st, p, from_token, amount_in) ==
    LET bridge_token == st.bridges[from_token]
        default_bridge == st.cfg.default_bridge
        roids == st.cfg.roids_token
    IN  IF bridge_token # None
        THEN LET v == validate_bridge(st.bridges, p, from_token, bridge_token,
                                      roids, BRIDGES_INITIAL_DEPTH)
             IN  IF v # NoErr
                 THEN SwapErr(v)
                 ELSE IF bridge_token = roids
                 THEN SwapRoids(SwapMsg(from_token, bridge_token, amount_in))
                 ELSE SwapBridge(bridge_token,
                                 SwapMsg(from_token, bridge_token, amount_in))
        ELSE IF try_build_swap_msg(p, from_token, roids)
        THEN SwapRoids(SwapMsg(from_token, roids, amount_in))
        ELSE IF /\ default_bridge # None
                /\ from_token # default_bridge
                /\ try_build_swap_msg(p, from_token, default_bridge)
        THEN SwapBridge(default_bridge, SwapMsg(from_token, default_bridge, amount_in))
        ELSE SwapErr(CannotSwap(from_token))

\* swap: 1. the bridge table, 2. the default bridge, 3. a direct pair.
swap(st, p, from_token, amount_in) ==
    LET bridge_token == st.bridges[from_token]
        default_bridge == st.cfg.default_bridge
        roids == st.cfg.roids_token
    IN  IF bridge_token # None
        THEN LET v == validate_bridge(st.bridges, p, from_token, bridge_token,
                                      roids, BRIDGES_INITIAL_DEPTH)
             IN  IF v # NoErr
                 THEN SwapErr(v)
                 ELSE IF bridge_token = roids
                 THEN SwapRoids(SwapMsg(from_token, bridge_token, amount_in))
                 ELSE SwapBridge(bridge_token,
                                 SwapMsg(from_token, bridge_token, amount_in))
        ELSE IF /\ default_bridge # None
                /\ from_token # default_bridge
                /\ try_build_swap_msg(p, from_token, default_bridge)
        THEN SwapBridge(default_bridge, SwapMsg(from_token, default_bridge, amount_in))
        ELSE IF try_build_swap_msg(p, from_token, roids)
        THEN SwapRoids(SwapMsg(from_token, roids, amount_in))
        ELSE SwapErr(CannotSwap(from_token))

\* spendable without the test that the limit is positive.
spendable_min(balance, limit) ==
    IF limit.some /\ limit.val < balance THEN limit.val ELSE balance

\* The amount swap_assets spends of one item: the limit when it is positive
\* and below the balance, the balance otherwise.
spendable(balance, limit) ==
    IF limit.some /\ limit.val < balance /\ limit.val > 0 THEN limit.val ELSE balance

\* swap_assets that skips an item swap fails on instead of returning its error.
RECURSIVE swap_assets_skip(_, _, _, _, _, _, _, _)
swap_assets_skip(st, p, bal, assets, i, msgs, bridge_assets, queries) ==
    IF i > Len(assets)
    THEN [err |-> NoErr, msgs |-> msgs, bridge_assets |-> bridge_assets,
          queries |-> queries]
    ELSE LET a == assets[i]
             balance == spendable(bal[a.info], a.limit)
             q == Append(queries, a.info)
             r == swap(st, p, a.info, balance)
         IN  IF balance = 0 \/ r.err # NoErr
             THEN swap_assets_skip(st, p, bal, assets, i + 1, msgs, bridge_assets, q)
             ELSE swap_assets_skip(st, p, bal, assets, i + 1,
                      Append(msgs, r.msg),
                      IF r.target = "Bridge"
                      THEN bridge_assets \cup {r.asset}
                      ELSE bridge_assets,
                      q)

\* swap_assets that records the destination of every swap as a bridge asset.
RECURSIVE swap_assets_all_targets(_, _, _, _, _, _, _, _)
swap_assets_all_targets(st, p, bal, assets, i, msgs, bridge_assets, queries) ==
    IF i > Len(assets)
    THEN [err |-> NoErr, msgs |-> msgs, bridge_assets |-> bridge_assets,
          queries |-> queries]
    ELSE LET a == assets[i]
             balance == spendable(bal[a.info], a.limit)
             q == Append(queries, a.info)
         IN  IF balance = 0
             THEN swap_assets_all_targets(st, p, bal, assets, i + 1, msgs,
                                          bridge_assets, q)
             ELSE LET r == swap(st, p, a.info, balance)
                  IN  IF r.err # NoErr
                      THEN [err |-> r.err, msgs |-> <<>>, bridge_assets |-> {},
                            queries |-> q]
                      ELSE swap_assets_all_targets(st, p, bal, assets, i + 1,
                               Append(msgs, r.msg),
                               bridge_assets \cup {r.msg.to},
                               q)

\* swap_assets: the loop over the items, from item i on, with the messages,
\* the bridge assets and the balance queries made so far.
RECURSIVE swap_assets_from(_, _, _, _, _, _, _, _)
swap_assets_from(st, p, bal, assets, i, msgs, bridge_assets, queries) ==
    IF i > Len(assets)
    THEN [err |-> NoErr, msgs |-> msgs, bridge_assets |-> bridge_assets,
          queries |-> queries]
    ELSE LET a == assets[i]
             balance == spendable(bal[a.info], a.limit)
             q == Append(queries, a.info)
         IN  IF balance = 0
             THEN swap_assets_from(st, p, bal, assets, i + 1, msgs, bridge_assets, q)
             ELSE LET r == swap(st, p, a.info, balance)
                  IN  IF r.err # NoErr
                      THEN [err |-> r.err, msgs |-> <<>>, bridge_assets |-> {},
                            queries |-> q]
                      ELSE swap_assets_from(st, p, bal, assets, i + 1,
                               Append(msgs, r.msg),
                               IF r.target = "Bridge"
                               THEN bridge_assets \cup {r.asset}
                               ELSE bridge_assets,
                               q)

swap_assets(st, p, bal, assets) ==
    swap_assets_from(st, p, bal, assets, 1, <<>>, {}, <<>>)

-----------------------------------------------------------------------------
(* The handlers.  Each returns its Result (err, msgs), the storage as it   *)
(* left it (store), and what it looked up on the way.                      *)

Res(e, msgs, st, queries, bridge_assets) ==
    [err |-> e, msgs |-> msgs, store |-> st, queries |-> queries,
     bridge_assets |-> bridge_assets]

\* The duplicate check of collect: some to_string() is inserted twice.
HasDuplicate(assets) ==
    \E i, j \in 1..Len(assets) : i < j /\ assets[i].info = assets[j].info

NotRoids(st, assets) ==
    LET keep(a) == a.info # st.cfg.roids_token IN SelectSeq(assets, keep)

\* collect with the cooldown comparison off by one (<= for <).
collect_le(st, t, p, bal, assets) ==
    LET cd == st.cfg.collect_cooldown
    IN  IF cd.some /\ t <= st.last_collect_ts + cd.val
        THEN Res(Cooldown(st.last_collect_ts + cd.val), <<>>, st, <<>>, {})
        ELSE LET st1 == [st EXCEPT !.last_collect_ts = t]
             IN  IF HasDuplicate(assets)
                 THEN Res(DuplicatedAsset, <<>>, st1, <<>>, {})
                 ELSE LET r == swap_assets(st1, p, bal, NotRoids(st1, assets))
                      IN  IF r.err # NoErr
                          THEN Res(r.err, <<>>, st1, r.queries, {})
                          ELSE Res(NoErr, r.msgs, st1, r.queries, r.bridge_assets)

\* collect with the duplicate check after the planner instead of before it.
collect_late_check(st, t, p, bal, assets) ==
    LET cd == st.cfg.collect_cooldown
    IN  IF cd.some /\ t < st.last_collect_ts + cd.val
        THEN Res(Cooldown(st.last_collect_ts + cd.val), <<>>, st, <<>>, {})
        ELSE LET st1 == [st EXCEPT !.last_collect_ts = t]
                 r == swap_assets(st1, p, bal, NotRoids(st1, assets))
             IN  IF r.err # NoErr
                 THEN Res(r.err, <<>>, st1, r.queries, {})
                 ELSE IF HasDuplicate(assets)
                 THEN Res(DuplicatedAsset, <<>>, st1, r.queries, {})
                 ELSE Res(NoErr, r.msgs, st1, r.queries, r.bridge_assets)

\* collect whose cooldown gate accepts without storing the block time.
collect_no_stamp(st, t, p, bal, assets) ==
    LET cd == st.cfg.collect_cooldown
    IN  IF cd.some /\ t < st.last_collect_ts + cd.val
        THEN Res(Cooldown(st.last_collect_ts + cd.val), <<>>, st, <<>>, {})
        ELSE IF HasDuplicate(assets)
        THEN Res(DuplicatedAsset, <<>>, st, <<>>, {})
        ELSE LET r == swap_assets(st, p, bal, NotRoids(st, assets))
             IN  IF r.err # NoErr
                 THEN Res(r.err, <<>>, st, r.queries, {})
                 ELSE Res(NoErr, r.msgs, st, r.queries, r.bridge_assets)

\* collect whose cooldown gate compares the block time with the last
\* collection alone, the period left out.
collect_ignores_period(st, t, p, bal, assets) ==
    LET cd == st.cfg.collect_cooldown
    IN  IF cd.some /\ t < st.last_collect_ts
        THEN Res(Cooldown(st.last_collect_ts + cd.val), <<>>, st, <<>>, {})
        ELSE LET st1 == [st EXCEPT !.last_collect_ts = t]
             IN  IF HasDuplicate(assets)
                 THEN Res(DuplicatedAsset, <<>>, st1, <<>>, {})
                 ELSE LET r == swap_assets(st1, p, bal, NotRoids(st1, assets))
                      IN  IF r.err # NoErr
                          THEN Res(r.err, <<>>, st1, r.queries, {})
                          ELSE Res(NoErr, r.msgs, st1, r.queries, r.bridge_assets)

collect(st, t, p, bal, assets) ==
    LET cd == st.cfg.collect_cooldown
    IN  IF cd.some /\ t < st.last_collect_ts + cd.val
        THEN Res(Cooldown(st.last_collect_ts + cd.val), <<>>, st, <<>>, {})
        ELSE LET st1 == [st EXCEPT !.last_collect_ts = t]
             IN  IF HasDuplicate(assets)
                 THEN Res(DuplicatedAsset, <<>>, st1, <<>>, {})
                 ELSE LET r == swap_assets(st1, p, bal, NotRoids(st1, assets))
                      IN  IF r.err # NoErr
                          THEN Res(r.err, <<>>, st1, r.queries, {})
                          ELSE Res(NoErr, r.msgs, st1, r.queries, r.bridge_assets)

\* The items swap_bridge_assets hands the planner: every asset, no limit.
NoLimit(assets) == [i \in 1..Len(assets) |-> [info |-> assets[i], limit |-> NoneInt]]

\* swap_bridge_assets without the sender check.
swap_bridge_assets_open(st, p, bal, sender, assets, depth, bridge_vec) ==
    IF assets = <<>>
    THEN Res(NoErr, <<>>, st, <<>>, {})
    ELSE IF depth >= BRIDGES_EXECUTION_MAX_DEPTH
    THEN Res(MaxBridgeDepth(depth), <<>>, st, <<>>, {})
    ELSE LET r == swap_assets(st, p, bal, NoLimit(assets))
         IN  IF r.err # NoErr
             THEN Res(r.err, <<>>, st, r.queries, {})
             ELSE IF r.msgs = <<>>
             THEN Res(EmptySwapMessages, <<>>, st, r.queries, {})
             ELSE Res(NoErr,
                      Append(r.msgs, build_distribute_msg(bridge_vec, depth + 1)),
                      st, r.queries, r.bridge_assets)

\* swap_bridge_assets with the depth test off by one (> for >=).
swap_bridge_assets_gt(st, p, bal, sender, assets, depth, bridge_vec) ==
    IF sender # ContractAddr
    THEN Res(Unauthorized, <<>>, st, <<>>, {})
    ELSE IF assets = <<>>
    THEN Res(NoErr, <<>>, st, <<>>, {})
    ELSE IF depth > BRIDGES_EXECUTION_MAX_DEPTH
    THEN Res(MaxBridgeDepth(depth), <<>>, st, <<>>, {})
    ELSE LET r == swap_assets(st, p, bal, NoLimit(assets))
         IN  IF r.err # NoErr
             THEN Res(r.err, <<>>, st, r.queries, {})
             ELSE IF r.msgs = <<>>
             THEN Res(EmptySwapMessages, <<>>, st, r.queries, {})
             ELSE Res(NoErr,
                      Append(r.msgs, build_distribute_msg(bridge_vec, depth + 1)),
                      st, r.queries, r.bridge_assets)

\* swap_bridge_assets whose follow-up keeps the depth it was given.
swap_bridge_assets_same_depth(st, p, bal, sender, assets, depth, bridge_vec) ==
    IF sender # ContractAddr
    THEN Res(Unauthorized, <<>>, st, <<>>, {})
    ELSE IF assets = <<>>
    THEN Res(NoErr, <<>>, st, <<>>, {})
    ELSE IF depth >= BRIDGES_EXECUTION_MAX_DEPTH
    THEN Res(MaxBridgeDepth(depth), <<>>, st, <<>>, {})
    ELSE LET r == swap_assets(st, p, bal, NoLimit(assets))
         IN  IF r.err # NoErr
             THEN Res(r.err, <<>>, st, r.queries, {})
             ELSE IF r.msgs = <<>>
             THEN Res(EmptySwapMessages, <<>>, st, r.queries, {})
             ELSE Res(NoErr,
                      Append(r.msgs, build_distribute_msg(bridge_vec, depth)),
                      st, r.queries, r.bridge_assets)

\* swap_bridge_assets that puts the follow-up before the swaps.
swap_bridge_assets_first(st, p, bal, sender, assets, depth, bridge_vec) ==
    IF sender # ContractAddr
    THEN Res(Unauthorized, <<>>, st, <<>>, {})
    ELSE IF assets = <<>>
    THEN Res(NoErr, <<>>, st, <<>>, {})
    ELSE IF depth >= BRIDGES_EXECUTION_MAX_DEPTH
    THEN Res(MaxBridgeDepth(depth), <<>>, st, <<>>, {})
    ELSE LET r == swap_assets(st, p, bal, NoLimit(assets))
         IN  IF r.err # NoErr
             THEN Res(r.err, <<>>, st, r.queries, {})
             ELSE IF r.msgs = <<>>
             THEN Res(EmptySwapMessages, <<>>, st, r.queries, {})
             ELSE Res(NoErr,
                      <<build_distribute_msg(bridge_vec, depth + 1)>> \o r.msgs,
                      st, r.queries, r.bridge_assets)

\* swap_bridge_assets that tests the depth before the empty list.
swap_bridge_assets_depth_first(st, p, bal, sender, assets, depth, bridge_vec) ==
    IF sender # ContractAddr
    THEN Res(Unauthorized, <<>>, st, <<>>, {})
    ELSE IF depth >= BRIDGES_EXECUTION_MAX_DEPTH
    THEN Res(MaxBridgeDepth(depth), <<>>, st, <<>>, {})
    ELSE IF assets = <<>>
    THEN Res(NoErr, <<>>, st, <<>>, {})
    ELSE LET r == swap_assets(st, p, bal, NoLimit(assets))
         IN  IF r.err # NoErr
             THEN Res(r.err, <<>>, st, r.queries, {})
             ELSE IF r.msgs = <<>>
             THEN Res(EmptySwapMessages, <<>>, st, r.queries, {})
             ELSE Res(NoErr,
                      Append(r.msgs, build_distribute_msg(bridge_vec, depth + 1)),
                      st, r.queries, r.bridge_assets)

\* swap_bridge_assets without the test for an empty response.
swap_bridge_assets_no_empty_check(st, p, bal, sender, assets, depth, bridge_vec) ==
    IF sender # ContractAddr
    THEN Res(Unauthorized, <<>>, st, <<>>, {})
    ELSE IF assets = <<>>
    THEN Res(NoErr, <<>>, st, <<>>, {})
    ELSE IF depth >= BRIDGES_EXECUTION_MAX_DEPTH
    THEN Res(MaxBridgeDepth(depth), <<>>, st, <<>>, {})
    ELSE LET r == swap_assets(st, p, bal, NoLimit(assets))
         IN  IF r.err # NoErr
             THEN Res(r.err, <<>>, st, r.queries, {})
             ELSE Res(NoErr,
                      Append(r.msgs, build_distribute_msg(bridge_vec, depth + 1)),
                      st, r.queries, r.bridge_assets)

\* bridge_vec: bridge_assets.into_values().collect(), in the map's order.
swap_bridge_assets(st, p, bal, sender, assets, depth, bridge_vec) ==
    IF sender # ContractAddr
    THEN Res(Unauthorized, <<>>, st, <<>>, {})
    ELSE IF assets = <<>>
    THEN Res(NoErr, <<>>, st, <<>>, {})
    ELSE IF depth >= BRIDGES_EXECUTION_MAX_DEPTH
    THEN Res(MaxBridgeDepth(depth), <<>>, st, <<>>, {})
    ELSE LET r == swap_assets(st, p, bal, NoLimit(assets))
         IN  IF r.err # NoErr
             THEN Res(r.err, <<>>, st, r.queries, {})
             ELSE IF r.msgs = <<>>
             THEN Res(EmptySwapMessages, <<>>, st, r.queries, {})
             ELSE Res(NoErr,
                      Append(r.msgs, build_distribute_msg(bridge_vec, depth + 1)),
                      st, r.queries, r.bridge_assets)

\* distribute: the balance of the target token is read; no message is built.
distribute(st, bal) == [msgs |-> <<>>, queries |-> <<st.cfg.roids_token>>]

\* distribute_astro that fails when distribute built no message.
distribute_astro_strict(st, bal, sender) ==
    IF sender # ContractAddr
    THEN Res(Unauthorized, <<>>, st, <<>>, {})
    ELSE LET d == distribute(st, bal)
         IN  IF d.msgs = <<>>
             THEN Res(Err("Std:Nothing to distribute", None, None, 0), <<>>, st,
                      d.queries, {})
             ELSE Res(NoErr, d.msgs, st, d.queries, {})

distribute_astro(st, bal, sender) ==
    IF sender # ContractAddr
    THEN Res(Unauthorized, <<>>, st, <<>>, {})
    ELSE LET d == distribute(st, bal)
         IN  Res(NoErr, d.msgs, st, d.queries, {})

\* update_config; m holds the six optional fields of the message.
update_config(st, sender, m) ==
    IF sender # st.cfg.owner
    THEN Res(Unauthorized, <<>>, st, <<>>, {})
    ELSE LET c1 == IF m.factory_contract # None
                   THEN [st.cfg EXCEPT !.factory_contract = m.factory_contract]
                   ELSE st.cfg
             c2 == IF m.asteroid_contract # None
                   THEN [c1 EXCEPT !.asteroid_contract = m.asteroid_contract]
                   ELSE c1
             c3 == IF m.basic_asset # None
                   THEN [c2 EXCEPT !.default_bridge = m.basic_asset]
                   ELSE c2
         IN  IF /\ m.max_spread.some
                /\ (m.max_spread.val = 0 \/ m.max_spread.val > MAX_ALLOWED_SLIPPAGE)
             THEN Res(IncorrectMaxSpread, <<>>, st, <<>>, {})
             ELSE LET c4 == IF m.max_spread.some
                            THEN [c3 EXCEPT !.max_spread = m.max_spread.val]
                            ELSE c3
                  IN  IF ~validate_cooldown(m.collect_cooldown)
                      THEN Res(IncorrectCooldown, <<>>, st, <<>>, {})
                      ELSE LET c5 == IF m.collect_cooldown.some
                                     THEN [c4 EXCEPT !.collect_cooldown = m.collect_cooldown]
                                     ELSE c4
                               c6 == IF m.roids_token # None
                                     THEN [c5 EXCEPT !.roids_token = m.roids_token]
                                     ELSE c5
                           IN  Res(NoErr, <<>>, [st EXCEPT !.cfg = c6], <<>>, {})

\* update_bridges: the removals, in order.
RECURSIVE remove_bridges(_, _, _)
remove_bridges(b, remove, i) ==
    IF i > Len(remove)
    THEN b
    ELSE remove_bridges([b EXCEPT ![remove[i]] = None], remove, i + 1)

\* add_bridges without the test that asset and bridge differ.
RECURSIVE add_bridges_no_self_check(_, _, _, _)
add_bridges_no_self_check(st, p, add, i) ==
    IF i > Len(add)
    THEN Res(NoErr, <<>>, st, <<>>, {})
    ELSE LET asset == add[i][1]
             bridge == add[i][2]
             v == validate_bridge(st.bridges, p, asset, bridge,
                                  st.cfg.roids_token, BRIDGES_INITIAL_DEPTH)
         IN  IF v # NoErr
             THEN Res(v, <<>>, st, <<>>, {})
             ELSE add_bridges_no_self_check([st EXCEPT !.bridges[asset] = bridge],
                                            p, add, i + 1)

\* update_bridges: the additions, in order, each validated against the
\* table as the removals and the earlier additions left it.
RECURSIVE add_bridges(_, _, _, _)
add_bridges(st, p, add, i) ==
    IF i > Len(add)
    THEN Res(NoErr, <<>>, st, <<>>, {})
    ELSE LET asset == add[i][1]
             bridge == add[i][2]
         IN  IF asset = bridge
             THEN Res(InvalidBridge(asset, bridge), <<>>, st, <<>>, {})
             ELSE LET v == validate_bridge(st.bridges, p, asset, bridge,
                                           st.cfg.roids_token, BRIDGES_INITIAL_DEPTH)
                  IN  IF v # NoErr
                      THEN Res(v, <<>>, st, <<>>, {})
                      ELSE add_bridges([st EXCEPT !.bridges[asset] = bridge],
                                       p, add, i + 1)

\* update_bridges without the permission check.
update_bridges_open(st, p, sender, add, remove) ==
    add_bridges([st EXCEPT !.bridges = remove_bridges(st.bridges, remove, 1)],
                p, add, 1)

\* update_bridges that adds before it removes.
update_bridges_add_first(st, p, sender, add, remove) ==
    IF sender # st.cfg.owner
    THEN Res(Unauthorized, <<>>, st, <<>>, {})
    ELSE LET r == add_bridges(st, p, add, 1)
         IN  IF r.err # NoErr
             THEN r
             ELSE Res(NoErr, <<>>,
                      [r.store EXCEPT !.bridges =
                           remove_bridges(r.store.bridges, remove, 1)],
                      <<>>, {})

update_bridges(st, p, sender, add, remove) ==
    IF sender # st.cfg.owner
    THEN Res(Unauthorized, <<>>, st, <<>>, {})
    ELSE add_bridges([st EXCEPT !.bridges = remove_bridges(st.bridges, remove, 1)],
                     p, add, 1)

\* instantiate: the configuration and the first LAST_COLLECT_TS, or the error.
instantiate(t, m) ==
    IF /\ m.max_spread.some
       /\ (m.max_spread.val = 0 \/ m.max_spread.val > MAX_ALLOWED_SLIPPAGE)
    THEN Res(IncorrectMaxSpread, <<>>, Store(None, None, 0), <<>>, {})
    ELSE IF ~validate_cooldown(m.collect_cooldown)
    THEN Res(IncorrectCooldown, <<>>, Store(None, None, 0), <<>>, {})
    ELSE Res(NoErr, <<>>,
             Store([owner |-> m.owner,
                    default_bridge |-> m.default_bridge,
                    roids_token |-> m.roids_token,
                    asteroid_contract |-> m.asteroid_contract,
                    factory_contract |-> m.factory_contract,
                    max_spread |-> IF m.max_spread.some THEN m.max_spread.val
                                   ELSE DEFAULT_MAX_SPREAD,
                    collect_cooldown |-> m.collect_cooldown],
                   [x \in Tokens |-> None],
                   t),
             <<>>, {})

\* execute that keeps the storage of a failed handler.
execute_no_revert(st, r) == r.store

\* The storage an invocation leaves behind: the handler's on Ok; on Err the
\* message is reverted and the storage is what it was.
execute(st, r) == IF r.err = NoErr THEN r.store ELSE st

-----------------------------------------------------------------------------
(* Bounds and input domains                                                *)

\* The clock advances TimeStep seconds per block, MaxTicks times at most.
MaxTicks == 3

\* Items per Collect / SwapBridgeAssets request.
MaxAssets == 2

\* Largest balance a query answers.
MaxBalance == 2

TimeStep == COOLDOWN_MIN

TokenLists(n) == UNION {[1..k -> Tokens] : k \in 0..n}

Items(limits) == [info : Tokens, limit : limits]

ItemLists(limits, n) == UNION {[1..k -> Items(limits)] : k \in 0..n}

Limits == {NoneInt} \cup {Some(v) : v \in 0..(MaxBalance + 1)}

\* The answers of the balance queries for the tokens in ts (a token that is
\* not queried has no answer: 0 stands for it).
Balances(ts, vals) == {b \in [Tokens -> vals] : \A t \in Tokens \ ts : b[t] = 0}

Range(f) == {f[i] : i \in DOMAIN f}

\* The orders in which a HashMap of the keys in s may yield its values.
Orders(s) ==
    {v \in UNION {[1..k -> s] : k \in {Cardinality(s)}} : Range(v) = s}

AllPairs == {{x, y} : x, y \in Tokens} \ {{x} : x \in Tokens}

-----------------------------------------------------------------------------
(* The state machine                                                       *)

CurStore == Store(cfg, bridges, last_collect_ts)

Idle == [op |-> "idle"]

\* One invocation: the handler's result r is recorded with its inputs, and
\* the storage is committed or reverted.
Invoke(op, sender, args, bal, r) ==
    /\ last = Idle
    /\ LET st == execute(CurStore, r)
       IN  /\ cfg' = st.cfg
           /\ bridges' = st.bridges
           /\ last_collect_ts' = st.last_collect_ts
    /\ last' = [op |-> op, sender |-> sender, args |-> args, bal |-> bal,
                now |-> now, pre |-> CurStore, res |-> r]
    /\ chain' = <<>>
    /\ UNCHANGED <<now, pools>>

InitWith(poolChoices, msgs) ==
    /\ now = 0
    /\ pools \in poolChoices
    /\ \E m \in msgs :
          LET r == instantiate(now, m)
          IN  /\ r.err = NoErr
              /\ cfg = r.store.cfg
              /\ bridges = r.store.bridges
              /\ last_collect_ts = r.store.last_collect_ts
    /\ last = Idle
    /\ chain = <<>>

\* The response has been taken by the chain; the next message may come.
Return ==
    /\ last # Idle
    /\ last' = Idle
    /\ chain' = <<>>
    /\ UNCHANGED <<cfg, bridges, last_collect_ts, now, pools>>

\* A later block.
Tick(maxTicks) ==
    /\ last = Idle
    /\ now + TimeStep <= maxTicks * TimeStep
    /\ now' = now + TimeStep
    /\ UNCHANGED <<cfg, bridges, last_collect_ts, pools, last, chain>>

Collect(senders, lists, vals) ==
    /\ last = Idle
    /\ \E sender \in senders, assets \in lists :
         \E bal \in Balances({assets[i].info : i \in DOMAIN assets}, vals) :
           Invoke("collect", sender, [assets |-> assets], bal,
                  collect(CurStore, now, pools, bal, assets))

SwapBridgeAssets(senders, lists, depths, vals) ==
    /\ last = Idle
    /\ \E sender \in senders, assets \in lists, depth \in depths :
         \E bal \in Balances(Range(assets), vals) :
           \E bridge_vec \in Orders(swap_assets(CurStore, pools, bal,
                                                NoLimit(assets)).bridge_assets) :
             Invoke("swap_bridge_assets", sender,
                    [assets |-> assets, depth |-> depth], bal,
                    swap_bridge_assets(CurStore, pools, bal, sender, assets, depth,
                                       bridge_vec))

DistributeAstro(senders, vals) ==
    /\ last = Idle
    /\ \E sender \in senders :
         \E bal \in Balances({cfg.roids_token}, vals) :
           Invoke("distribute_astro", sender, [none |-> None], bal,
                  distribute_astro(CurStore, bal, sender))

UpdateConfig(senders, msgs) ==
    /\ last = Idle
    /\ \E sender \in senders, m \in msgs :
         Invoke("update_config", sender, m, [t \in Tokens |-> 0],
                update_config(CurStore, sender, m))

UpdateBridges(senders, adds, removes) ==
    /\ last = Idle
    /\ \E sender \in senders, add \in adds, remove \in removes :
         Invoke("update_bridges", sender, [add |-> add, remove |-> remove],
                [t \in Tokens |-> 0],
                update_bridges(CurStore, pools, sender, add, remove))

-----------------------------------------------------------------------------
(* Messages the specifications draw from                                   *)

InstantiateMsg(default_bridge, collect_cooldown) ==
    [owner |-> OwnerAddr, default_bridge |-> default_bridge,
     roids_token |-> "roids", factory_contract |-> "factory",
     asteroid_contract |-> "asteroid", max_spread |-> NoneInt,
     collect_cooldown |-> collect_cooldown]

NoUpdate ==
    [factory_contract |-> None, asteroid_contract |-> None, basic_asset |-> None,
     max_spread |-> NoneInt, collect_cooldown |-> NoneInt, roids_token |-> None]

\* UpdateConfig messages that set one field each.
UpdateConfigMsgs(bridgeChoices, cooldownChoices, roidsChoices) ==
    {NoUpdate}
    \cup {[NoUpdate EXCEPT !.basic_asset = b] : b \in bridgeChoices}
    \cup {[NoUpdate EXCEPT !.collect_cooldown = Some(c)] : c \in cooldownChoices}
    \cup {[NoUpdate EXCEPT !.roids_token = r] : r \in roidsChoices}
    \cup {[NoUpdate EXCEPT !.max_spread = Some(v)] :
             v \in {0, DEFAULT_MAX_SPREAD, MAX_ALLOWED_SLIPPAGE + 1}}
    \cup {[NoUpdate EXCEPT !.factory_contract = "factory",
                           !.asteroid_contract = "asteroid"]}

BridgePairs == Tokens \X Tokens

\* Requests that name at most one token, at most one pair.
SingleTokenLists == {<<>>} \cup {<<x>> : x \in Tokens}

SinglePairLists == {<<>>} \cup {<<pr>> : pr \in BridgePairs}

Pool(x, y) == {x, y}

-----------------------------------------------------------------------------
(* Spec: the collection cycle over time.  One set of pairs (A reaches the   *)
(* target through B, C has no pair), the clock running, Collect with every *)
(* list of up to MaxAssets items.                                          *)

Init ==
    InitWith({{Pool("A", "B"), Pool("B", "roids")}},
             {InstantiateMsg(None, c) : c \in {NoneInt, Some(60)}})

DoTick == Tick(MaxTicks)

DoCollect == Collect({"user"}, ItemLists({NoneInt}, MaxAssets), {0, MaxBalance})

DoSwapBridgeAssets ==
    SwapBridgeAssets({ContractAddr, "user"}, SingleTokenLists,
                     {BRIDGES_INITIAL_DEPTH, BRIDGES_EXECUTION_MAX_DEPTH},
                     {0, MaxBalance})

DoDistributeAstro == DistributeAstro({ContractAddr, "user"}, {0, MaxBalance})

DoUpdateConfig ==
    UpdateConfig({OwnerAddr, "user"}, UpdateConfigMsgs({}, {29, 30, 60, 601}, {}))

DoUpdateBridges ==
    UpdateBridges({OwnerAddr, "user"},
                  {<<>>, <<<<"A", "B">>>>, <<<<"B", "A">>>>, <<<<"B", "roids">>>>,
                   <<<<"C", "C">>>>},
                  SingleTokenLists)

Next ==
    \/ DoTick
    \/ Return
    \/ DoCollect
    \/ DoSwapBridgeAssets
    \/ DoDistributeAstro
    \/ DoUpdateConfig
    \/ DoUpdateBridges

Spec == Init /\ [][Next]_vars

-----------------------------------------------------------------------------
(* SpecRoute: the route resolver and the planner over every set of pairs    *)
(* among A/C, B/C, B/roids and C/roids, every default bridge and every     *)
(* bridge table the owner can write over them, within one block.           *)

RoutePools ==
    SUBSET {Pool("A", "C"), Pool("B", "C"), Pool("B", "roids"), Pool("C", "roids")}

InitRoute ==
    InitWith(RoutePools, {InstantiateMsg(d, NoneInt) : d \in {None, "C"}})

RouteCollect == Collect({"user"}, ItemLists({NoneInt}, MaxAssets), {0, MaxBalance})

RouteSwapBridgeAssets ==
    SwapBridgeAssets({ContractAddr}, SingleTokenLists, {BRIDGES_INITIAL_DEPTH},
                     {0, MaxBalance})

RouteDistributeAstro == DistributeAstro({ContractAddr}, {0, MaxBalance})

RouteUpdateConfig ==
    UpdateConfig({OwnerAddr}, UpdateConfigMsgs({"C", "roids"}, {29}, {}))

RouteUpdateBridges == UpdateBridges({OwnerAddr}, SinglePairLists, SingleTokenLists)

NextRoute ==
    \/ Return
    \/ RouteCollect
    \/ RouteSwapBridgeAssets
    \/ RouteDistributeAstro
    \/ RouteUpdateConfig
    \/ RouteUpdateBridges

SpecRoute == InitRoute /\ [][NextRoute]_vars

-----------------------------------------------------------------------------
(* SpecPlan: caps and continuations.  A reaches the target through C, B    *)
(* directly or through C; Collect takes every cap from 0 to above the      *)
(* balance, SwapBridgeAssets every sender, list and depth up to above the  *)
(* ceiling.                                                                *)

PlanItems == [info : {"A", "B"}, limit : Limits]

PlanLists == UNION {[1..k -> PlanItems] : k \in 0..MaxAssets}

InitPlan ==
    InitWith({{Pool("A", "C"), Pool("B", "roids"), Pool("C", "roids")},
              {Pool("A", "C"), Pool("B", "C"), Pool("C", "roids")}},
             {InstantiateMsg(d, NoneInt) : d \in {None, "C"}})

PlanCollect == Collect({"user"}, PlanLists, {0, MaxBalance})

PlanSwapBridgeAssets ==
    SwapBridgeAssets(Senders, TokenLists(MaxAssets),
                     0..(BRIDGES_EXECUTION_MAX_DEPTH + 1), {0, MaxBalance})

PlanDistributeAstro == DistributeAstro({ContractAddr}, {0, MaxBalance})

PlanUpdateConfig == UpdateConfig({OwnerAddr}, UpdateConfigMsgs({"C"}, {29}, {}))

PlanUpdateBridges ==
    UpdateBridges({OwnerAddr},
                  {<<>>, <<<<"A", "C">>>>, <<<<"B", "C">>>>, <<<<"B", "roids">>>>},
                  SingleTokenLists)

NextPlan ==
    \/ Return
    \/ PlanCollect
    \/ PlanSwapBridgeAssets
    \/ PlanDistributeAstro
    \/ PlanUpdateConfig
    \/ PlanUpdateBridges

SpecPlan == InitPlan /\ [][NextPlan]_vars

-----------------------------------------------------------------------------
(* Delivery of the messages the contract addresses to itself               *)

\* The messages of a response that go back to the contract (the swaps go to
\* the pairs).
SelfMsgs(msgs) == SelectSeq(msgs, LAMBDA m : m.kind # "swap")

\* The response in hand succeeded and holds a message for the contract.
FollowUpPending ==
    /\ last # Idle
    /\ last.res.err = NoErr
    /\ SelfMsgs(last.res.msgs) # <<>>

\* The invocation that follows the one in hand: its record replaces last,
\* which joins the chain.
Deliver(op, sender, args, bal, r) ==
    /\ LET st == execute(CurStore, r)
       IN  /\ cfg' = st.cfg
           /\ bridges' = st.bridges
           /\ last_collect_ts' = st.last_collect_ts
    /\ last' = [op |-> op, sender |-> sender, args |-> args, bal |-> bal,
                now |-> now, pre |-> CurStore, res |-> r]
    /\ chain' = Append(chain, last)
    /\ UNCHANGED <<now, pools>>

\* The chain delivers the follow-up message of the response in hand; its
\* sender is the contract.
Dispatch(vals) ==
    /\ FollowUpPending
    /\ LET m == SelfMsgs(last.res.msgs)[1]
       IN  \/ /\ m.kind = "swap_bridge_assets"
              /\ \E bal \in Balances(Range(m.assets), vals) :
                   \E bridge_vec \in Orders(swap_assets(CurStore, pools, bal,
                                                NoLimit(m.assets)).bridge_assets) :
                     Deliver("swap_bridge_assets", ContractAddr,
                             [assets |-> m.assets, depth |-> m.depth], bal,
                             swap_bridge_assets(CurStore, pools, bal, ContractAddr,
                                                m.assets, m.depth, bridge_vec))
           \/ /\ m.kind = "distribute_astro"
              /\ \E bal \in Balances({cfg.roids_token}, vals) :
                   Deliver("distribute_astro", ContractAddr, [none |-> None], bal,
                           distribute_astro(CurStore, bal, ContractAddr))

\* The sender of a DistributeAstro sends it again as the next message;
\* nothing moved in between, the balance is what the first call read.
DistributeAstroAgain ==
    /\ last # Idle
    /\ last.op = "distribute_astro"
    /\ chain = <<>>
    /\ Deliver("distribute_astro", last.sender, [none |-> None], last.bal,
               distribute_astro(CurStore, last.bal, last.sender))

-----------------------------------------------------------------------------
(* SpecChain: chains of continuations.  A and B have a pair with each      *)
(* other and with the target, so the owner can write the tables A->B,      *)
(* B->A and both (a cycle); C has no pair.  A chain starts with a          *)
(* SwapBridgeAssets of the contract at the initial depth and goes on with  *)
(* the follow-up message of every response.                                *)

ChainTokens == {"A", "B"}

ChainLists == UNION {[1..k -> ChainTokens] : k \in 0..MaxAssets}

ChainItemLists == UNION {[1..k -> [info : ChainTokens, limit : {NoneInt}]] : k \in 0..MaxAssets}

ChainPairLists ==
    UNION {[1..k -> ChainTokens \X {"A", "B", "C", "roids"}] : k \in 0..MaxAssets}

InitChain ==
    InitWith({{Pool("A", "B"), Pool("A", "roids"), Pool("B", "roids")}},
             {InstantiateMsg(d, NoneInt) : d \in {None, "B"}})

ChainCollect == Collect({"user"}, ChainItemLists, {0, MaxBalance})

ChainSwapBridgeAssets ==
    SwapBridgeAssets({ContractAddr}, ChainLists, {BRIDGES_INITIAL_DEPTH},
                     {0, MaxBalance})

ChainDistributeAstro == DistributeAstro({ContractAddr, "user"}, {0, MaxBalance})

ChainDispatch == Dispatch({0, MaxBalance})

\* The response is taken once it has no message left to deliver.
ChainReturn == ~FollowUpPending /\ Return

ChainUpdateBridges == UpdateBridges({OwnerAddr}, ChainPairLists, SingleTokenLists)

NextChain ==
    \/ ChainReturn
    \/ ChainCollect
    \/ ChainSwapBridgeAssets
    \/ ChainDispatch
    \/ ChainDistributeAstro
    \/ DistributeAstroAgain
    \/ ChainUpdateBridges

SpecChain == InitChain /\ [][NextChain]_vars

\* The chain delivers every message in flight and takes every response.
SpecChainLive ==
    SpecChain /\ WF_vars(ChainDispatch) /\ WF_vars(ChainReturn)

-----------------------------------------------------------------------------
(* SpecTable: requests to the bridge table.  The pairs are A/B, A/C, B/C   *)
(* and C/roids: C reaches the target directly, A and B only through the    *)
(* table, so whether A -> B or B -> A validates depends on the entry of    *)
(* the other token at that moment.  Requests carry up to MaxAssets         *)
(* removals and up to MaxAssets additions.                                 *)

TablePairs ==
    {<<"A", "B">>, <<"A", "C">>, <<"B", "C">>, <<"B", "A">>, <<"B", "B">>}

TablePairLists == UNION {[1..k -> TablePairs] : k \in 0..MaxAssets}

InitTable ==
    InitWith({{Pool("A", "B"), Pool("A", "C"), Pool("B", "C"), Pool("C", "roids")}},
             {InstantiateMsg(None, NoneInt)})

TableUpdateBridges == UpdateBridges({OwnerAddr, "user"}, TablePairLists, ChainLists)

NextTable ==
    \/ Return
    \/ TableUpdateBridges

SpecTable == InitTable /\ [][NextTable]_vars

-----------------------------------------------------------------------------
(* Properties of one invocation, read from its record in last              *)

IsOp(op) == last # Idle /\ last.op = op

\* The storage is what it was before the invocation.
StorageUnchanged == CurStore = last.pre

\* The cooldown gate of collect rejects at time t.
GateRejects(st, t) ==
    /\ st.cfg.collect_cooldown.some
    /\ t < st.last_collect_ts + st.cfg.collect_cooldown.val

\* C4: the cooldown gate of Collect rejects with Cooldown{next_collect_ts =
\* L + c} exactly when a cooldown c is configured and t < L + c; otherwise
\* (t >= L + c, or no cooldown) it accepts, and a successful Collect leaves
\* the stored timestamp equal to t.
C4_CooldownGate ==
    IsOp("collect") =>
        LET c == last.pre.cfg.collect_cooldown
            L == last.pre.last_collect_ts
            t == last.now
        IN  /\ (c.some /\ t < L + c.val) =>
                  /\ last.res.err.type = "Cooldown"
                  /\ last.res.err.num = L + c.val
            /\ (~c.some \/ t >= L + c.val) => last.res.err.type # "Cooldown"
            /\ last.res.err = NoErr => last_collect_ts = t

\* C4 witness: a Collect at exactly t = L + c, later than L, is accepted and
\* the stored timestamp is t.
C4_Witness ==
    /\ IsOp("collect")
    /\ last.pre.cfg.collect_cooldown.some
    /\ last.now = last.pre.last_collect_ts + last.pre.cfg.collect_cooldown.val
    /\ last.res.err = NoErr
    /\ last.res.msgs # <<>>
    /\ last_collect_ts = last.now

\* A Collect that passed the cooldown gate and failed later.
FailedAfterGate ==
    /\ IsOp("collect")
    /\ last.res.err # NoErr
    /\ last.res.err.type # "Cooldown"

\* C5 as claimed: a Collect that passes the gate at t and fails later leaves
\* the persisted timestamp equal to t.
C5_FailureConsumesWindow == FailedAfterGate => last_collect_ts = last.now

\* C5 as amended: a Collect that passes the gate at t and fails later wrote
\* t before failing, and the failed invocation is reverted whole: the
\* persisted timestamp, configuration and bridge table are what they were,
\* so the next Collect is gated against the earlier timestamp.
C5_FailureReverted ==
    FailedAfterGate =>
        /\ last.res.store.last_collect_ts = last.now
        /\ last_collect_ts = last.pre.last_collect_ts
        /\ StorageUnchanged
        /\ last.res.msgs = <<>>

\* C5 witness: a Collect over an unroutable token with a balance, in a later
\* block than the last collection, with a cooldown configured.
C5_Witness ==
    /\ FailedAfterGate
    /\ last.res.err.type = "CannotSwap"
    /\ last.pre.cfg.collect_cooldown.some
    /\ last.now > last.pre.last_collect_ts
    /\ last_collect_ts = last.pre.last_collect_ts

\* C6 as claimed: a Collect whose list names a token twice fails with
\* DuplicatedAsset in every state, with no balance query, no message and no
\* change of storage.
C6_DuplicateAlwaysDuplicated ==
    (IsOp("collect") /\ HasDuplicate(last.args.assets)) =>
        /\ last.res.err = DuplicatedAsset
        /\ last.res.queries = <<>>
        /\ last.res.msgs = <<>>
        /\ StorageUnchanged

\* C6 as amended: such a Collect fails with DuplicatedAsset when the
\* cooldown gate accepts it and with Cooldown when the gate, which runs
\* first, rejects it; either way no balance is queried, no message is
\* emitted and storage (the timestamp included) does not change.
C6_DuplicateRejected ==
    (IsOp("collect") /\ HasDuplicate(last.args.assets)) =>
        /\ IF GateRejects(last.pre, last.now)
           THEN last.res.err.type = "Cooldown"
           ELSE last.res.err = DuplicatedAsset
        /\ last.res.queries = <<>>
        /\ last.res.msgs = <<>>
        /\ StorageUnchanged
        /\ last_collect_ts = last.pre.last_collect_ts

\* C6 witness: a duplicate list of a routable token with a balance, past the
\* gate, in a later block than the last collection.
C6_Witness ==
    /\ IsOp("collect")
    /\ last.args.assets = <<[info |-> "B", limit |-> NoneInt],
                            [info |-> "B", limit |-> NoneInt]>>
    /\ last.bal["B"] > 0
    /\ last.res.err = DuplicatedAsset
    /\ last.now > last.pre.last_collect_ts

\* The entry of token x passes the validation it was written under.
EntryValidates(x) ==
    validate_bridge(bridges, pools, x, bridges[x], cfg.roids_token,
                    BRIDGES_INITIAL_DEPTH) = NoErr

\* C10: after any sequence of add/remove bridge-route operations, with the
\* pools fixed, every entry stored in the bridge table resolves to the target
\* within the lookup depth, so swap never meets an entry that fails
\* validation.
C10_StoredEntriesValidate ==
    \A x \in Tokens : bridges[x] # None => EntryValidates(x)

-----------------------------------------------------------------------------
(* Properties of a planner run                                             *)

\* The invocation reached swap_assets.
PlannerRan ==
    \/ /\ IsOp("collect")
       /\ ~GateRejects(last.pre, last.now)
       /\ ~HasDuplicate(last.args.assets)
    \/ /\ IsOp("swap_bridge_assets")
       /\ last.sender = ContractAddr
       /\ last.args.assets # <<>>
       /\ last.args.depth < BRIDGES_EXECUTION_MAX_DEPTH

\* The items the planner was given.
PlannerItems ==
    IF last.op = "collect"
    THEN NotRoids(last.pre, last.args.assets)
    ELSE NoLimit(last.args.assets)

\* What an item may spend: its cap when 0 < cap < balance, else the balance.
Spend(item) ==
    LET b == last.bal[item.info]
    IN  CASE ~item.limit.some -> b
          [] item.limit.val = 0 -> b
          [] item.limit.val >= b -> b
          [] OTHER -> item.limit.val

\* No bridge-table entry, no pool against the default bridge, no direct pool.
Unroutable(st, p, x) ==
    /\ st.bridges[x] = None
    /\ ~(st.cfg.default_bridge # None /\ {x, st.cfg.default_bridge} \in p
         /\ x # st.cfg.default_bridge)
    /\ ~({x, st.cfg.roids_token} \in p /\ x # st.cfg.roids_token)

\* The error validation gives for the bridge-table entry of x.
EntryError(st, p, x) ==
    validate_bridge(st.bridges, p, x, st.bridges[x], st.cfg.roids_token,
                    BRIDGES_INITIAL_DEPTH)

\* Item i of the planner's list has something to spend and cannot be swapped.
Fails(i) ==
    /\ Spend(PlannerItems[i]) > 0
    /\ \/ Unroutable(last.pre, pools, PlannerItems[i].info)
       \/ /\ last.pre.bridges[PlannerItems[i].info] # None
          /\ EntryError(last.pre, pools, PlannerItems[i].info) # NoErr

FirstFailing == CHOOSE i \in DOMAIN PlannerItems :
                    Fails(i) /\ \A j \in 1..(i - 1) : ~Fails(j)

SwapMsgsOf(msgs) == SelectSeq(msgs, LAMBDA m : m.kind = "swap")

Continuations(msgs) == {i \in DOMAIN msgs : msgs[i].kind = "swap_bridge_assets"}

\* C1: a successful Collect whose planner run produced a bridge-hop swap
\* answers with exactly one SwapBridgeAssets message, addressed to the
\* contract and carrying the run's deduplicated bridge tokens; with no
\* bridge-hop swap it carries none.
C1_CollectContinues ==
    (IsOp("collect") /\ last.res.err = NoErr) =>
        LET msgs == last.res.msgs
            hops == {msgs[i].to : i \in {j \in DOMAIN msgs :
                        /\ msgs[j].kind = "swap"
                        /\ msgs[j].to # last.pre.cfg.roids_token}}
        IN  IF hops # {}
            THEN /\ Cardinality(Continuations(msgs)) = 1
                 /\ \A i \in Continuations(msgs) :
                       /\ msgs[i].to = ContractAddr
                       /\ Range(msgs[i].assets) = hops
                       /\ Len(msgs[i].assets) = Cardinality(hops)
            ELSE Continuations(msgs) = {}

\* C7 as claimed: when any item with something to spend has no usable route,
\* the invocation fails with CannotSwap naming that token and emits nothing.
C7_UnroutableNamed ==
    PlannerRan =>
        \A i \in DOMAIN PlannerItems :
            (/\ Spend(PlannerItems[i]) > 0
             /\ Unroutable(last.pre, pools, PlannerItems[i].info)) =>
                /\ last.res.err = CannotSwap(PlannerItems[i].info)
                /\ last.res.msgs = <<>>

\* C7 as amended: when any item with something to spend has no usable route,
\* the whole invocation fails, emits no message and changes no storage, even
\* when other items are routable; the error is that of the first item in
\* list order that cannot be swapped: CannotSwap naming it when it has no
\* usable route, the validation error when its bridge entry fails validation.
C7_UnroutableAborts ==
    (/\ PlannerRan
     /\ \E i \in DOMAIN PlannerItems :
           /\ Spend(PlannerItems[i]) > 0
           /\ Unroutable(last.pre, pools, PlannerItems[i].info)) =>
        /\ last.res.err # NoErr
        /\ last.res.msgs = <<>>
        /\ StorageUnchanged
        /\ LET x == PlannerItems[FirstFailing].info
           IN  last.res.err = IF Unroutable(last.pre, pools, x)
                              THEN CannotSwap(x)
                              ELSE EntryError(last.pre, pools, x)

\* C7 witness: a Collect of two tokens with balances, the first routable, the
\* second without any route, fails with CannotSwap naming the second.
C7_Witness ==
    /\ IsOp("collect")
    /\ PlannerRan
    /\ Len(PlannerItems) = 2
    /\ Spend(PlannerItems[1]) > 0
    /\ ~Fails(1)
    /\ Spend(PlannerItems[2]) > 0
    /\ Unroutable(last.pre, pools, PlannerItems[2].info)
    /\ last.res.err = CannotSwap(PlannerItems[2].info)
    /\ last.res.msgs = <<>>

\* The result r of resolving token x for amount n follows the tiers.
Tiers(st, p, x, n, r) ==
    LET e == st.bridges[x]
        d == st.cfg.default_bridge
        T == st.cfg.roids_token
        toD == d # None /\ d # x /\ {x, d} \in p
        toT == x # T /\ {x, T} \in p
    IN  CASE e # None ->
               \/ /\ r.err = NoErr
                  /\ EntryError(st, p, x) = NoErr
                  /\ r.msg = SwapMsg(x, e, n)
                  /\ r.target = (IF e = T THEN "Roids" ELSE "Bridge")
                  /\ r.target = "Bridge" => r.asset = e
               \/ /\ r.err # NoErr
                  /\ r.err = EntryError(st, p, x)
                  /\ r.err.type \in {"InvalidBridgeNoPool", "MaxBridgeDepth",
                                     "InvalidBridgeDestination"}
          [] e = None /\ toD ->
               /\ r.err = NoErr
               /\ r.target = "Bridge"
               /\ r.asset = d
               /\ r.msg = SwapMsg(x, d, n)
          [] e = None /\ ~toD /\ toT ->
               /\ r.err = NoErr
               /\ r.target = "Roids"
               /\ r.msg = SwapMsg(x, T, n)
          [] OTHER -> r.err = CannotSwap(x)

\* C8: in every reachable storage, for every token and amount, swap returns
\* the first matching tier: the bridge-table entry (or its validation error),
\* else the default bridge when configured, different from the token and
\* paired with it, else the direct pair with the target, else CannotSwap.
C8_FirstMatchWins ==
    /\ \A x \in Tokens, n \in 1..MaxBalance :
          Tiers(CurStore, pools, x, n, swap(CurStore, pools, x, n))
    /\ (PlannerRan /\ last.res.err = NoErr) =>
          \A i \in DOMAIN SwapMsgsOf(last.res.msgs) :
             \E x \in Tokens, r \in {SwapRoids(SwapMsgsOf(last.res.msgs)[i]),
                                     SwapBridge(SwapMsgsOf(last.res.msgs)[i].to,
                                                SwapMsgsOf(last.res.msgs)[i])} :
                Tiers(last.pre, pools, x, SwapMsgsOf(last.res.msgs)[i].amount, r)

\* C8 witness: a Collect of a token without a bridge entry that has a pool
\* with the default bridge and a pool with the target is sent to the
\* default bridge.
C8_Witness ==
    /\ IsOp("collect")
    /\ last.res.err = NoErr
    /\ Len(last.res.msgs) = 1
    /\ LET m == last.res.msgs[1]
       IN  /\ last.pre.bridges[m.from] = None
           /\ {m.from, last.pre.cfg.roids_token} \in pools
           /\ last.pre.cfg.default_bridge # last.pre.cfg.roids_token
           /\ m.to = last.pre.cfg.default_bridge

-----------------------------------------------------------------------------
(* Properties of the continuation                                          *)

\* C2: a SwapBridgeAssets whose sender is not the contract fails with
\* Unauthorized for every list and depth, emits no message, queries no
\* balance (the planner does not run) and leaves storage unchanged.
C2_OnlySelfContinues ==
    (IsOp("swap_bridge_assets") /\ last.sender # ContractAddr) =>
        /\ last.res.err = Unauthorized
        /\ last.res.msgs = <<>>
        /\ last.res.queries = <<>>
        /\ StorageUnchanged

\* C2 witness: the owner sends SwapBridgeAssets at the initial depth over a
\* token with a balance and a direct pool, and is refused.
C2_Witness ==
    /\ IsOp("swap_bridge_assets")
    /\ last.sender = OwnerAddr
    /\ last.args.depth = BRIDGES_INITIAL_DEPTH
    /\ last.args.assets = <<"B">>
    /\ last.bal["B"] > 0
    /\ last.res.err = Unauthorized

\* C3 as claimed: a self-sent SwapBridgeAssets at or above the execution
\* ceiling fails with MaxBridgeDepth(depth) for every token list.
C3_CeilingForEveryList ==
    (/\ IsOp("swap_bridge_assets")
     /\ last.sender = ContractAddr
     /\ last.args.depth >= BRIDGES_EXECUTION_MAX_DEPTH) =>
        last.res.err = MaxBridgeDepth(last.args.depth)

\* Every token of the continuation has a balance and a route.
AllRoutableWithBalance ==
    \A i \in DOMAIN last.args.assets :
        /\ last.bal[last.args.assets[i]] > 0
        /\ ~Unroutable(last.pre, pools, last.args.assets[i])
        /\ last.pre.bridges[last.args.assets[i]] # None =>
              EntryError(last.pre, pools, last.args.assets[i]) = NoErr

\* C3 as amended: a self-sent SwapBridgeAssets at or above the execution
\* ceiling fails with MaxBridgeDepth(depth) for every non-empty token list
\* (an empty list succeeds as a no-op at every depth); one level below the
\* ceiling, over a non-empty list of routable tokens with balances, it
\* succeeds.
C3_CeilingForNonEmptyLists ==
    (IsOp("swap_bridge_assets") /\ last.sender = ContractAddr) =>
        /\ (/\ last.args.depth >= BRIDGES_EXECUTION_MAX_DEPTH
            /\ last.args.assets # <<>>) =>
               /\ last.res.err = MaxBridgeDepth(last.args.depth)
               /\ last.res.msgs = <<>>
        /\ last.args.assets = <<>> =>
               /\ last.res.err = NoErr
               /\ last.res.msgs = <<>>
        /\ (/\ last.args.depth = BRIDGES_EXECUTION_MAX_DEPTH - 1
            /\ last.args.assets # <<>>
            /\ AllRoutableWithBalance) =>
               /\ last.res.err = NoErr
               /\ SwapMsgsOf(last.res.msgs) # <<>>

\* C3 witness: the contract continues at the ceiling over a routable token
\* with a balance and is refused with the depth it was given.
C3_Witness ==
    /\ IsOp("swap_bridge_assets")
    /\ last.sender = ContractAddr
    /\ last.args.depth = BRIDGES_EXECUTION_MAX_DEPTH
    /\ last.args.assets # <<>>
    /\ AllRoutableWithBalance
    /\ last.res.err = MaxBridgeDepth(BRIDGES_EXECUTION_MAX_DEPTH)

\* The planner's items that have something to spend, in list order.
SpendingItems == SelectSeq(PlannerItems, LAMBDA it : Spend(it) > 0)

\* C9: a planner run that succeeds emits, for every item, no swap when its
\* spendable amount (the cap when 0 < cap < balance, else the balance) is
\* zero, and exactly one swap, of that token for exactly that amount, when it
\* is positive.
C9_SpendableAmount ==
    (PlannerRan /\ last.res.err = NoErr) =>
        LET swaps == SwapMsgsOf(last.res.msgs)
        IN  /\ Len(swaps) = Len(SpendingItems)
            /\ \A k \in DOMAIN swaps :
                  /\ swaps[k].from = SpendingItems[k].info
                  /\ swaps[k].amount = Spend(SpendingItems[k])

\* C9 witness: a Collect of two items, one capped below its balance and one
\* with a zero cap, swaps the cap of the first and the whole balance of the
\* second.
C9_Witness ==
    /\ IsOp("collect")
    /\ last.res.err = NoErr
    /\ Len(last.args.assets) = 2
    /\ last.args.assets[1].limit.some
    /\ last.args.assets[1].limit.val > 0
    /\ last.args.assets[1].limit.val < last.bal[last.args.assets[1].info]
    /\ last.args.assets[2].limit = Some(0)
    /\ Len(last.res.msgs) = 2
    /\ last.res.msgs[1].amount = last.args.assets[1].limit.val
    /\ last.res.msgs[2].amount = last.bal[last.args.assets[2].info]
    /\ last.res.msgs[2].amount > 0

-----------------------------------------------------------------------------
(* Properties of chains of continuations                                   *)

\* The invocations of the run in hand, the earliest first.
Run == IF last = Idle THEN <<>> ELSE Append(chain, last)

\* The run began with a SwapBridgeAssets of the contract at the initial depth.
StartedAtInitialDepth ==
    /\ Run # <<>>
    /\ Run[1].op = "swap_bridge_assets"
    /\ Run[1].sender = ContractAddr
    /\ Run[1].args.depth = BRIDGES_INITIAL_DEPTH

\* C11: with a bridge table written only through UpdateBridges, no
\* continuation of a chain that began at the initial depth is refused with
\* MaxBridgeDepth.
C11_CeilingUnreachable ==
    StartedAtInitialDepth =>
        \A i \in DOMAIN Run : Run[i].res.err.type # "MaxBridgeDepth"

\* The accepted continuations over a non-empty list among the invocations
\* of the run.
AcceptedHops ==
    {i \in DOMAIN Run : /\ Run[i].op = "swap_bridge_assets"
                        /\ Run[i].sender = ContractAddr
                        /\ Run[i].args.assets # <<>>
                        /\ Run[i].res.err = NoErr}

\* C12: every accepted continuation at depth d hands on exactly one
\* follow-up, at depth d + 1 when it is a continuation; a continuation over
\* a non-empty list at or above the ceiling is refused and hands on nothing;
\* so along a chain the depths go up by one, the chain holds at most
\* ceiling - initial depth accepted non-empty continuations, whatever the
\* bridge table and the balances, and it ends after one invocation more.
C12_ChainTerminates ==
    /\ \A i \in DOMAIN Run :
          (Run[i].op = "swap_bridge_assets" /\ Run[i].sender = ContractAddr) =>
             /\ i \in AcceptedHops =>
                   /\ Len(SelfMsgs(Run[i].res.msgs)) = 1
                   /\ SelfMsgs(Run[i].res.msgs)[1].kind = "swap_bridge_assets" =>
                         SelfMsgs(Run[i].res.msgs)[1].depth = Run[i].args.depth + 1
             /\ (/\ Run[i].args.assets # <<>>
                 /\ Run[i].args.depth >= BRIDGES_EXECUTION_MAX_DEPTH) =>
                   /\ Run[i].res.err = MaxBridgeDepth(Run[i].args.depth)
                   /\ Run[i].res.msgs = <<>>
             /\ (i > 1 /\ Run[i - 1].op = "swap_bridge_assets") =>
                   Run[i].args.depth = Run[i - 1].args.depth + 1
    /\ Cardinality(AcceptedHops) <= BRIDGES_EXECUTION_MAX_DEPTH - BRIDGES_INITIAL_DEPTH
    /\ Len(Run) <= BRIDGES_EXECUTION_MAX_DEPTH - BRIDGES_INITIAL_DEPTH + 1

\* C12 witness: over the cyclic table A->B, B->A a chain from the initial
\* depth is accepted at every depth below the ceiling and refused at it.
C12_Witness ==
    /\ StartedAtInitialDepth
    /\ bridges["A"] = "B"
    /\ bridges["B"] = "A"
    /\ Cardinality(AcceptedHops) = BRIDGES_EXECUTION_MAX_DEPTH - BRIDGES_INITIAL_DEPTH
    /\ last.args.depth = BRIDGES_EXECUTION_MAX_DEPTH
    /\ last.res.err = MaxBridgeDepth(BRIDGES_EXECUTION_MAX_DEPTH)

\* A Collect that was accepted and emitted a swap.
CollectSwapped ==
    /\ IsOp("collect")
    /\ last.res.err = NoErr
    /\ SwapMsgsOf(last.res.msgs) # <<>>

\* DistributeAstro runs in a chain of invocations that a Collect began.
DistributedAfterCollect ==
    /\ IsOp("distribute_astro")
    /\ chain # <<>>
    /\ chain[1].op = "collect"

\* C13: every accepted Collect that emitted a swap is eventually followed,
\* in the chain of invocations it began, by an invocation of DistributeAstro.
C13_CollectLeadsToDistribute == CollectSwapped ~> DistributedAfterCollect

-----------------------------------------------------------------------------
(* Properties of the bridge table                                          *)

\* The pairs of an add request that name one token twice.
SelfPairs(add) == {i \in DOMAIN add : add[i][1] = add[i][2]}

\* The pair validates whatever the table holds: both pools exist.
ValidatesDirectly(st, p, pr) ==
    /\ HasPool(p, pr[1], pr[2])
    /\ pr[2] = st.cfg.roids_token \/ HasPool(p, pr[2], st.cfg.roids_token)

\* C14: no entry of the bridge table maps a token to itself; an UpdateBridges
\* of the owner whose add list holds a pair (x, x) fails with a bridge error
\* (InvalidBridge(x, x) when the pairs before it validate) and stores
\* nothing: not its removals, not the pairs before the self-loop.
C14_NoSelfLoop ==
    /\ \A x \in Tokens : bridges[x] # x
    /\ (/\ IsOp("update_bridges")
        /\ last.sender = last.pre.cfg.owner
        /\ SelfPairs(last.args.add) # {}) =>
          LET add == last.args.add
              k == CHOOSE i \in SelfPairs(add) : \A j \in SelfPairs(add) : i <= j
          IN  /\ last.res.err.type \in {"InvalidBridge", "InvalidBridgeNoPool",
                                        "InvalidBridgeDestination", "MaxBridgeDepth"}
              /\ (\A j \in 1..(k - 1) : ValidatesDirectly(last.pre, pools, add[j])) =>
                    last.res.err = InvalidBridge(add[k][1], add[k][2])
              /\ last.res.msgs = <<>>
              /\ StorageUnchanged

\* C14 witness: the owner removes the entry of A and adds (A, B), (B, B):
\* the request fails on (B, B), A keeps the entry it had.
C14_Witness ==
    /\ IsOp("update_bridges")
    /\ last.sender = OwnerAddr
    /\ last.args.add = <<<<"A", "B">>, <<"B", "B">>>>
    /\ last.args.remove = <<"A">>
    /\ last.pre.bridges["A"] = "roids"
    /\ last.res.err = InvalidBridge("B", "B")
    /\ bridges["A"] = "roids"

-----------------------------------------------------------------------------
(* Properties of a response                                                *)

\* The positions of the planner's items that have something to spend.
SpendingPositions == {i \in DOMAIN PlannerItems : Spend(PlannerItems[i]) > 0}

\* C15: in the response of a planner run the swaps come first, one per item
\* with something to spend and in the order of those items (an item with
\* nothing to spend yields none), and the message the contract addresses to
\* itself, when there is one, is single and comes last, after every swap.
C15_SwapsInOrderFollowUpLast ==
    (PlannerRan /\ last.res.err = NoErr) =>
        LET msgs == last.res.msgs
            n == Cardinality(SpendingPositions)
            \* the k-th smallest spending position
            pos(k) == CHOOSE i \in SpendingPositions :
                         Cardinality({j \in SpendingPositions : j < i}) = k - 1
        IN  /\ Len(msgs) \in {n, n + 1}
            /\ \A k \in 1..n :
                  /\ msgs[k].kind = "swap"
                  /\ msgs[k].from = PlannerItems[pos(k)].info
            /\ \A k \in DOMAIN msgs :
                  msgs[k].kind # "swap" =>
                     /\ k = Len(msgs)
                     /\ k = n + 1
                     /\ msgs[k].to = ContractAddr
            /\ IsOp("swap_bridge_assets") => Len(msgs) = n + 1

\* C15 witness: a continuation that begins with B and ends with A, both with
\* a balance, answers with the swap of B, the swap of A and, last, the next
\* continuation.
C15_Witness ==
    /\ IsOp("swap_bridge_assets")
    /\ last.res.err = NoErr
    /\ Len(last.args.assets) >= 2
    /\ last.args.assets[1] = "B"
    /\ last.args.assets[Len(last.args.assets)] = "A"
    /\ Len(last.res.msgs) = 3
    /\ last.res.msgs[1].from = "B"
    /\ last.res.msgs[2].from = "A"
    /\ last.res.msgs[3].kind = "swap_bridge_assets"

\* A SwapBridgeAssets that the contract sent.
SelfContinuation == IsOp("swap_bridge_assets") /\ last.sender = ContractAddr

\* C16: a SwapBridgeAssets of the contract with an empty list succeeds at
\* every depth, the ceiling and above included: no error, no message, no
\* balance query, storage unchanged.
C16_EmptyListNoOp ==
    (SelfContinuation /\ last.args.assets = <<>>) =>
        /\ last.res.err = NoErr
        /\ last.res.msgs = <<>>
        /\ last.res.queries = <<>>
        /\ StorageUnchanged

\* C16 witness: an empty list above the ceiling is answered with success.
C16_Witness ==
    /\ SelfContinuation
    /\ last.args.assets = <<>>
    /\ last.args.depth > BRIDGES_EXECUTION_MAX_DEPTH
    /\ last.res.err = NoErr
    /\ last.res.msgs = <<>>

\* C17: a SwapBridgeAssets of the contract below the ceiling over a
\* non-empty list of tokens that all have a zero balance fails with the
\* error "Empty swap messages"; it emits no message, so no follow-up
\* either, and storage is unchanged.
C17_NoSwapIsError ==
    (/\ SelfContinuation
     /\ last.args.assets # <<>>
     /\ last.args.depth < BRIDGES_EXECUTION_MAX_DEPTH
     /\ \A i \in DOMAIN last.args.assets : last.bal[last.args.assets[i]] = 0) =>
        /\ last.res.err = EmptySwapMessages
        /\ last.res.msgs = <<>>
        /\ StorageUnchanged

\* C17 witness: one level below the ceiling, two routable tokens without a
\* balance: the continuation fails with "Empty swap messages".
C17_Witness ==
    /\ SelfContinuation
    /\ last.args.assets = <<"A", "B">>
    /\ last.args.depth = BRIDGES_EXECUTION_MAX_DEPTH - 1
    /\ last.bal["A"] = 0
    /\ last.bal["B"] = 0
    /\ ~Unroutable(last.pre, pools, "A")
    /\ ~Unroutable(last.pre, pools, "B")
    /\ last.res.queries = <<"A", "B">>
    /\ last.res.err = EmptySwapMessages

-----------------------------------------------------------------------------
(* Properties of DistributeAstro                                           *)

\* A DistributeAstro that follows straight on a DistributeAstro of the same
\* sender.
SecondDistribute ==
    /\ IsOp("distribute_astro")
    /\ chain # <<>>
    /\ chain[Len(chain)].op = "distribute_astro"

\* C18 as claimed: the second of two DistributeAstro in a row, the balance
\* of the target token being zero, succeeds with no message, no error and no
\* change of storage, and its outcome is the first's.
C18_SecondDistributeSucceeds ==
    (SecondDistribute /\ last.bal[last.pre.cfg.roids_token] = 0) =>
        /\ last.res.err = NoErr
        /\ last.res.msgs = <<>>
        /\ StorageUnchanged
        /\ last.res.err = chain[Len(chain)].res.err
        /\ last.res.msgs = chain[Len(chain)].res.msgs

\* C18 as amended: the second of two DistributeAstro in a row emits no
\* message and changes no storage, as the first did, and its outcome is the
\* first's: success when the contract itself is the sender (whatever the
\* balance of the target token, zero included), Unauthorized both times for
\* any other sender.
C18_SecondDistributeNoOp ==
    SecondDistribute =>
        /\ last.res.err = (IF last.sender = ContractAddr THEN NoErr ELSE Unauthorized)
        /\ last.res.msgs = <<>>
        /\ StorageUnchanged
        /\ chain[Len(chain)].pre = CurStore
        /\ last.res.err = chain[Len(chain)].res.err
        /\ last.res.msgs = chain[Len(chain)].res.msgs

\* C18 witness: the contract sends DistributeAstro twice in a row with no
\* balance of the target token; the second succeeds and emits nothing.
C18_Witness ==
    /\ SecondDistribute
    /\ last.sender = ContractAddr
    /\ chain[Len(chain)].sender = ContractAddr
    /\ last.bal[last.pre.cfg.roids_token] = 0
    /\ last.res.queries = <<last.pre.cfg.roids_token>>
    /\ last.res.err = NoErr
    /\ last.res.msgs = <<>>

-----------------------------------------------------------------------------
(* Properties of the last-collection timestamp                             *)

\* The step is a Collect that is accepted and succeeds.
CollectAccepted ==
    /\ last' # Idle
    /\ last' # last
    /\ last'.op = "collect"
    /\ last'.res.err = NoErr

\* C19: a step that is an accepted Collect leaves LAST_COLLECT_TS equal to
\* the block time; every other step (a rejected or failed Collect,
\* SwapBridgeAssets, DistributeAstro, UpdateBridges, UpdateConfig, a later
\* block, taking a response) leaves it as it was.
C19_TimestampOnlyByCollect ==
    [][IF CollectAccepted
       THEN last_collect_ts' = now
       ELSE last_collect_ts' = last_collect_ts]_vars

\* C19 witness: a Collect accepted in a later block than the last one, past
\* a configured cooldown, has moved the timestamp to its block time.
C19_Witness ==
    /\ IsOp("collect")
    /\ last.res.err = NoErr
    /\ last.pre.cfg.collect_cooldown.some
    /\ last.pre.last_collect_ts > 0
    /\ last.now > last.pre.last_collect_ts
    /\ last_collect_ts = last.now

-----------------------------------------------------------------------------
(* Properties of the planner's bridge assets                               *)

\* The swap of token x is a bridge hop: x has a bridge-table entry other
\* than the target, or it has none and is paired with the default bridge,
\* which it is not itself.
BridgeHop(st, p, x) ==
    \/ st.bridges[x] # None /\ st.bridges[x] # st.cfg.roids_token
    \/ /\ st.bridges[x] = None
       /\ st.cfg.default_bridge # None
       /\ x # st.cfg.default_bridge
       /\ {x, st.cfg.default_bridge} \in p

\* The destinations of the bridge-hop swaps of the response.
HopDestinations ==
    {m.to : m \in {n \in Range(SwapMsgsOf(last.res.msgs)) :
                      BridgeHop(last.pre, pools, n.from)}}

\* C20: the bridge assets a successful planner run returns are exactly the
\* destinations of its bridge-hop swaps, each once, however many items are
\* swapped into the same bridge token; the follow-up of a continuation
\* carries each of them once, or is DistributeAstro when there is none.
C20_BridgeAssetsDistinct ==
    (PlannerRan /\ last.res.err = NoErr) =>
        /\ last.res.bridge_assets = HopDestinations
        /\ IsOp("swap_bridge_assets") =>
              LET f == last.res.msgs[Len(last.res.msgs)]
              IN  IF HopDestinations = {}
                  THEN f = DistributeAstroMsg
                  ELSE /\ f.kind = "swap_bridge_assets"
                       /\ Range(f.assets) = HopDestinations
                       /\ Len(f.assets) = Cardinality(HopDestinations)

\* C20 witness: a continuation over A and B, both swapped into C, hands on C
\* once.
C20_Witness ==
    /\ IsOp("swap_bridge_assets")
    /\ last.res.err = NoErr
    /\ last.args.assets = <<"A", "B">>
    /\ Len(last.res.msgs) = 3
    /\ last.res.msgs[1] = SwapMsg("A", "C", last.bal["A"])
    /\ last.res.msgs[2] = SwapMsg("B", "C", last.bal["B"])
    /\ last.res.bridge_assets = {"C"}
    /\ last.res.msgs[3].assets = <<"C">>

-----------------------------------------------------------------------------
(* Properties of the target token                                          *)

\* C21: in every configuration (a default bridge equal to the target token
\* included) and with every bridge table, swap returns a swap into the
\* target token as SwapTarget::Roids, and the bridge assets of a planner
\* run, like the list of a follow-up SwapBridgeAssets, never hold the target
\* token.
C21_TargetNeverBridged ==
    /\ \A x \in Tokens, n \in 1..MaxBalance :
          LET r == swap(CurStore, pools, x, n)
          IN  (r.err = NoErr /\ r.msg.to = cfg.roids_token) => r.target = "Roids"
    /\ (PlannerRan /\ last.res.err = NoErr) =>
          /\ last.pre.cfg.roids_token \notin last.res.bridge_assets
          /\ \A i \in Continuations(last.res.msgs) :
                last.pre.cfg.roids_token \notin Range(last.res.msgs[i].assets)

-----------------------------------------------------------------------------
(* Properties of the configuration and the bridge table as a whole         *)

\* The step is an invocation of one of ops.
Invokes(ops) ==
    /\ last' # Idle
    /\ last' # last
    /\ last'.op \in ops

AfterRemovals(b, remove) ==
    [t \in Tokens |-> IF t \in Range(remove) THEN None ELSE b[t]]

\* The tables of a request: T[0] after the removals, T[j] after the j-th
\* addition on top of T[j - 1].
TablesOf(b, add, remove) ==
    LET T[j \in 0..Len(add)] ==
            IF j = 0
            THEN AfterRemovals(b, remove)
            ELSE [T[j - 1] EXCEPT ![add[j][1]] = add[j][2]]
    IN  T

\* What the j-th addition of the request in hand meets: a self-loop, or the
\* verdict of the path validation on the table before it.
AdditionVerdict(j) ==
    LET add == last.args.add
        T == TablesOf(last.pre.bridges, add, last.args.remove)
    IN  IF add[j][1] = add[j][2]
        THEN InvalidBridge(add[j][1], add[j][2])
        ELSE validate_bridge(T[j - 1], pools, add[j][1], add[j][2],
                             last.pre.cfg.roids_token, BRIDGES_INITIAL_DEPTH)

RejectedAdditions ==
    {j \in DOMAIN last.args.add : AdditionVerdict(j) # NoErr}

\* C23: an UpdateBridges of the owner applies the removals, then the
\* additions in list order, each judged on the table the removals and the
\* earlier additions left; if all pass, the table is the last of these
\* tables; if one is rejected, the call fails with the verdict of the first
\* rejected one and the table is the table before the call.
C23_UpdateBridgesAllOrNothing ==
    (IsOp("update_bridges") /\ last.sender = last.pre.cfg.owner) =>
        LET add == last.args.add
            T == TablesOf(last.pre.bridges, add, last.args.remove)
        IN  IF RejectedAdditions = {}
            THEN /\ last.res.err = NoErr
                 /\ bridges = T[Len(add)]
            ELSE /\ \E j \in RejectedAdditions :
                       /\ \A k \in RejectedAdditions : j <= k
                       /\ last.res.err = AdditionVerdict(j)
                 /\ bridges = last.pre.bridges

\* C23 witness: the table holds A -> B and B -> C; the owner asks to
\* remove B and to add A -> C, which validates, and B -> B, a self-loop;
\* the call fails and the table still holds A -> B and B -> C.
C23_Witness ==
    /\ IsOp("update_bridges")
    /\ last.sender = last.pre.cfg.owner
    /\ last.pre.bridges["A"] = "B"
    /\ last.pre.bridges["B"] = "C"
    /\ last.args.remove = <<"B">>
    /\ last.args.add = <<<<"A", "C">>, <<"B", "B">>>>
    /\ RejectedAdditions = {2}
    /\ last.res.err = InvalidBridge("B", "B")
    /\ bridges["A"] = "B"
    /\ bridges["B"] = "C"

-----------------------------------------------------------------------------
(* Properties of the collection times                                      *)

\* C24: the block time never goes back and neither does LAST_COLLECT_TS;
\* LAST_COLLECT_TS moves only in an accepted Collect, to the block time of
\* that Collect, so at the next accepted Collect it is the time t1 of the
\* one before; an accepted Collect at block time t2 under a configured
\* cooldown c, read from CONFIG as that call finds it, has t2 >= t1 + c.
C24_CollectsSpacedByCooldown ==
    [][/\ now' >= now
       /\ last_collect_ts' >= last_collect_ts
       /\ last_collect_ts' # last_collect_ts => CollectAccepted
       /\ CollectAccepted =>
             /\ last'.now = now
             /\ last_collect_ts' = now
             /\ cfg.collect_cooldown.some =>
                   now >= last_collect_ts + cfg.collect_cooldown.val]_vars

\* C24 witness: a Collect was accepted at time COOLDOWN_MIN with no cooldown
\* configured; the owner then configured COOLDOWN_MIN, and the Collect in
\* hand is accepted exactly one period after the first.
C24_Witness ==
    /\ IsOp("collect")
    /\ last.res.err = NoErr
    /\ last.pre.last_collect_ts = COOLDOWN_MIN
    /\ last.pre.cfg.collect_cooldown = Some(COOLDOWN_MIN)
    /\ last.now = last.pre.last_collect_ts + COOLDOWN_MIN
    /\ last_collect_ts = last.now

=============================================================================
